---- MODULE Spec2Model ----
(***************************************************************************)
(* The datashader pipeline as the example notebooks use and describe it:   *)
(* Canvas/projection, aggregation by incremental reduction operators,      *)
(* combination of aggregates, and colormapping by tf.interpolate.          *)
(*                                                                         *)
(* Numbers are integers.  A floating-point NaN is the value NaN below; a   *)
(* floating-point sum is rounded to FloatBits significant bits, to nearest *)
(* with ties to even, as IEEE-754 addition rounds to 53.                   *)
(***************************************************************************)
EXTENDS Integers, Naturals, Sequences, FiniteSets, TLC

VARIABLES
    pc,         \* where the session stands
    request,    \* the arguments of the last Canvas construction
    canvas,     \* the Canvas in use, or NoCanvas
    err,        \* the error the last operation raised, or "none"
    probes,     \* the projections made on the canvas, newest last
    records,    \* the dataframe: a sequence of records
    reduction,  \* the reduction operator of the aggregation
    pending,    \* indices of the records not yet streamed
    inOrder,    \* TRUE while the records were streamed in dataframe order
    chunk,      \* the aggregate of the batch being processed
    chunkLen,   \* number of records streamed into the current batch
    column,     \* the column the reduction is applied to, or NoColumn
    total,      \* the aggregate merged from the finished batches
    nflush,     \* number of batches merged so far
    path,       \* cells of the line segment rasterized last
    left,       \* first operand of a combination of aggregates
    right,      \* second operand
    combined,   \* result of the combination, or NoAgg
    how,        \* tf.interpolate: the transform
    span,       \* tf.interpolate: explicit span, or NoSpan
    cmap,       \* tf.interpolate: the colormap
    image,      \* the Image produced, or NoImage
    shaded,     \* tf.interpolate: the transformed bin values, or NoAgg
    degen,      \* the colormap entry the library takes for a one-value span
    summary,    \* the aggregates of a summary, by name, or NoAgg
    views,      \* the pipeline invocations made so far, oldest first
    mask,       \* tf.spread: the structuring mask, or NoMask
    spreadImg   \* tf.spread: the Image produced, or NoImage

vars == << pc, request, canvas, err, probes, records, reduction, pending,
           inOrder, chunk, chunkLen, total, nflush, path, left, right,
           combined, how, span, cmap, image, shaded, degen, summary, views,
           mask, spreadImg, column >>

----------------------------------------------------------------------------
(* Bounds of the model *)

MaxRecords == 3
MaxLineRecords == 4
FloatBits == 3

----------------------------------------------------------------------------
(* Values *)

NaN == -1000
IsNaN(v) == v = NaN

NoCanvas == [w |-> 0, h |-> 0, xl |-> 0, xh |-> 0, yl |-> 0, yh |-> 0]
NoAgg == << >>
NoImage == << >>
NoSpan == << >>
NoMask == << >>
NoColumn == "none"

\* The column each reduction of the notebook is given.
ColumnOf(red) ==
    CASE red \in {"sum", "mean", "count_col"} -> "val"
      [] red = "count_cat" -> "cat"
      [] OTHER -> NoColumn

Min2(a, b) == IF a <= b THEN a ELSE b
Max2(a, b) == IF a >= b THEN a ELSE b

SetMin(S) == CHOOSE m \in S : \A s \in S : m <= s
SetMax(S) == CHOOSE m \in S : \A s \in S : m >= s

----------------------------------------------------------------------------
(* Canvas / projection *)

MkCanvas(w, h, xl, xh, yl, yh) ==
    [w |-> w, h |-> h, xl |-> xl, xh |-> xh, yl |-> yl, yh |-> yh]

\* A zero width or height accepted.
ValidRequest_zero(r) == r.w >= 0 /\ r.h >= 0 /\ r.xl < r.xh /\ r.yl < r.yh

\* A configuration the Canvas constructor accepts.
ValidRequest(r) == r.w > 0 /\ r.h > 0 /\ r.xl < r.xh /\ r.yl < r.yh

Clamp(v, lo, hi) == Max2(lo, Min2(v, hi))

\* The clamp left out: a cell index may fall outside the grid.
ProjectAxis_noclamp(v, low, high, n) == ((v - low) * n) \div (high - low)

\* col = floor((x - x_low) / (x_high - x_low) * width), clamped to [0, width-1]
ProjectAxis(v, low, high, n) ==
    Clamp(((v - low) * n) \div (high - low), 0, n - 1)

project(c, x, y) ==
    << ProjectAxis(x, c.xl, c.xh, c.w), ProjectAxis(y, c.yl, c.yh, c.h) >>

Cells(c) == (0 .. c.w - 1) \X (0 .. c.h - 1)

\* Inputs of the canvas session
ReqWidths == {0, 2, 3}
ReqHeights == {-1, 1, 2}
ReqXRanges == { <<0, 2>>, <<-1, 4>>, <<2, 2>>, <<3, 1>> }
ReqYRanges == { <<0, 2>>, <<-2, 1>>, <<1, 1>> }
ProbeXs == {-3, -1, 0, 1, 2, 5}
ProbeYs == {-2, 0, 1, 3}

IdleRest ==
    /\ records = << >> /\ reduction = "count" /\ pending = {}
    /\ inOrder = TRUE /\ chunk = NoAgg /\ chunkLen = 0 /\ total = NoAgg
    /\ nflush = 0 /\ path = << >> /\ left = NoAgg /\ right = NoAgg
    /\ combined = NoAgg /\ how = "linear" /\ span = NoSpan
    /\ cmap = << >> /\ image = NoImage
    /\ shaded = NoAgg /\ degen = 1 /\ summary = NoAgg /\ views = << >>
    /\ mask = NoMask /\ spreadImg = NoImage /\ column = ColumnOf(reduction)

InitCanvas ==
    /\ pc = "config"
    /\ request = NoCanvas
    /\ canvas = NoCanvas
    /\ err = "none"
    /\ probes = << >>
    /\ IdleRest

\* ds.Canvas(plot_width=w, plot_height=h, x_range=xr, y_range=yr)
Configure(w, h, xr, yr) ==
    /\ pc \in {"config", "failed"}
    /\ request' = MkCanvas(w, h, xr[1], xr[2], yr[1], yr[2])
    /\ IF ValidRequest(request')
         THEN /\ canvas' = request'
              /\ err' = "none"
              /\ pc' = "ready"
         ELSE /\ canvas' = NoCanvas
              /\ err' = "InvalidRangeError"
              /\ pc' = "failed"
    /\ probes' = << >>
    /\ UNCHANGED << records, reduction, pending, inOrder, chunk, chunkLen,
                    total, nflush, path, left, right, combined, how, span,
                    cmap, image, shaded, degen, summary,
                    views, mask, spreadImg, column >>

\* canvas.project(x, y) for a finite point; the last two projections are kept
ProjectPoint(x, y) ==
    /\ pc = "ready"
    /\ LET p == project(canvas, x, y)
           e == [x |-> x, y |-> y, col |-> p[1], row |-> p[2]]
       IN  probes' = IF Len(probes) < 2 THEN Append(probes, e)
                     ELSE << probes[2], e >>
    /\ UNCHANGED << pc, request, canvas, err, records, reduction, pending,
                    inOrder, chunk, chunkLen, total, nflush, path, left,
                    right, combined, how, span, cmap, image, shaded, degen, summary,
                    views, mask, spreadImg, column >>

\* aggregation is entered with the configured canvas
StartAggregate ==
    /\ pc = "ready"
    /\ pc' = "aggregating"
    /\ UNCHANGED << request, canvas, err, probes, records, reduction, pending,
                    inOrder, chunk, chunkLen, total, nflush, path, left,
                    right, combined, how, span, cmap, image, shaded, degen, summary,
                    views, mask, spreadImg, column >>

NextCanvas ==
    \/ \E w \in ReqWidths, h \in ReqHeights, xr \in ReqXRanges,
          yr \in ReqYRanges : Configure(w, h, xr, yr)
    \/ \E x \in ProbeXs, y \in ProbeYs : ProjectPoint(x, y)
    \/ StartAggregate

SpecCanvas == InitCanvas /\ [][NextCanvas]_vars

\* C3: on every valid Canvas, project of a finite point, in range or not,
\* lies in [0, width-1] x [0, height-1], and project is monotonic in x and
\* in y.
C3_ProjectInGridMonotonic ==
    \A i \in 1 .. Len(probes) :
        /\ 0 <= probes[i].col /\ probes[i].col <= canvas.w - 1
        /\ 0 <= probes[i].row /\ probes[i].row <= canvas.h - 1
        /\ \A j \in 1 .. Len(probes) :
              /\ probes[i].x <= probes[j].x => probes[i].col <= probes[j].col
              /\ probes[i].y <= probes[j].y => probes[i].row <= probes[j].row

\* A point left of x_range and a point right of it were projected to
\* different columns of the same canvas.
C3_Witness ==
    /\ Len(probes) = 2
    /\ probes[1].x < canvas.xl /\ probes[2].x > canvas.xh
    /\ probes[1].y > canvas.yh
    /\ probes[1].col < probes[2].col

\* The condition under which the claim has configure fail.
MalformedRequest(r) == r.xl >= r.xh \/ r.yl >= r.yh \/ r.w <= 0 \/ r.h <= 0

\* C8: configure fails with InvalidRangeError exactly when low >= high on
\* an axis or width <= 0 or height <= 0; then no Canvas exists, and
\* aggregation is only ever entered with a well-formed Canvas.
C8_InvalidRangeAtConfigure ==
    /\ pc # "config" =>
          /\ (err = "InvalidRangeError") <=> MalformedRequest(request)
          /\ (canvas = NoCanvas) <=> MalformedRequest(request)
          /\ (pc = "failed") <=> MalformedRequest(request)
    /\ pc = "aggregating" =>
          /\ canvas = request
          /\ ~ MalformedRequest(canvas)
          /\ err = "none"

\* A request with low = high on the x axis and a positive size was refused.
C8_Witness ==
    /\ pc = "failed" /\ err = "InvalidRangeError" /\ canvas = NoCanvas
    /\ request.xl = request.xh /\ request.w > 0 /\ request.h > 0
    /\ request.yl < request.yh

----------------------------------------------------------------------------
(* Aggregation: incremental reduction operators, Point glyph *)

Reductions == {"count", "any", "sum", "mean", "count_cat"}
Cats == {"d1", "d2"}

\* Spacing of the representable floating-point numbers at magnitude n >= 0.
RECURSIVE Ulp(_)
Ulp(n) == IF n < 2^FloatBits THEN 1 ELSE 2 * Ulp(n \div 2)

\* n >= 0 rounded to FloatBits significant bits, to nearest, ties to even.
RoundF(n) ==
    LET u == Ulp(n)
        q == n \div u
        r == n % u
    IN  IF 2 * r < u THEN q * u
        ELSE IF 2 * r > u THEN (q + 1) * u
        ELSE IF q % 2 = 0 THEN q * u ELSE (q + 1) * u

\* Floating-point addition.
FAdd(a, b) == RoundF(a + b)

\* The state of a bin before any datapoint.
InitCell(red) ==
    CASE red = "count" -> 0
      [] red = "any" -> 0
      [] red = "count_col" -> 0
      [] red = "sum" -> 0
      [] red = "mean" -> << 0, 0 >>
      [] red = "count_cat" -> [k \in Cats |-> 0]

\* The bin keeps the value of the datapoint seen last.
UpdateCell_last(red, s, r) ==
    CASE red = "count" -> 1
      [] red = "any" -> 1
      [] red = "count_col" -> IF IsNaN(r.val) THEN s ELSE 1
      [] red = "sum" -> IF IsNaN(r.val) THEN s ELSE r.val
      [] red = "mean" -> IF IsNaN(r.val) THEN s ELSE << r.val, 1 >>
      [] red = "count_cat" -> [k \in Cats |-> IF k = r.cat THEN 1 ELSE 0]

\* A datapoint whose column value is NaN is counted, its value taken as 0.
UpdateCell_countnan(red, s, r) ==
    CASE red = "count" -> s + 1
      [] red = "any" -> 1
      [] red = "count_col" -> s + 1
      [] red = "sum" -> IF IsNaN(r.val) THEN s ELSE FAdd(s, r.val)
      [] red = "mean" -> IF IsNaN(r.val) THEN << s[1], s[2] + 1 >>
                         ELSE << FAdd(s[1], r.val), s[2] + 1 >>
      [] red = "count_cat" -> [s EXCEPT ![r.cat] = @ + 1]

\* any accumulates like count.
UpdateCell_anycount(red, s, r) ==
    CASE red = "count" -> s + 1
      [] red = "any" -> s + 1
      [] red = "count_col" -> IF IsNaN(r.val) THEN s ELSE s + 1
      [] red = "sum" -> IF IsNaN(r.val) THEN s ELSE FAdd(s, r.val)
      [] red = "mean" -> IF IsNaN(r.val) THEN s
                         ELSE << FAdd(s[1], r.val), s[2] + 1 >>
      [] red = "count_cat" -> [s EXCEPT ![r.cat] = @ + 1]

\* count_cat increments the sub-slot of every category.
UpdateCell_catall(red, s, r) ==
    CASE red = "count" -> s + 1
      [] red = "any" -> 1
      [] red = "count_col" -> IF IsNaN(r.val) THEN s ELSE s + 1
      [] red = "sum" -> IF IsNaN(r.val) THEN s ELSE FAdd(s, r.val)
      [] red = "mean" -> IF IsNaN(r.val) THEN s
                         ELSE << FAdd(s[1], r.val), s[2] + 1 >>
      [] red = "count_cat" -> [k \in Cats |-> s[k] + 1]

\* Given a bin to update and a new datapoint, the reduction operator updates
\* the state of the bin.
UpdateCell(red, s, r) ==
    CASE red = "count" -> s + 1
      [] red = "any" -> 1
      [] red = "count_col" -> IF IsNaN(r.val) THEN s ELSE s + 1
      [] red = "sum" -> IF IsNaN(r.val) THEN s ELSE FAdd(s, r.val)
      [] red = "mean" -> IF IsNaN(r.val) THEN s
                         ELSE << FAdd(s[1], r.val), s[2] + 1 >>
      [] red = "count_cat" -> [s EXCEPT ![r.cat] = @ + 1]

\* The rule merging the states two batches left in the same bin.
MergeCell(red, a, b) ==
    CASE red = "count" -> a + b
      [] red = "any" -> Max2(a, b)
      [] red = "count_col" -> a + b
      [] red = "sum" -> FAdd(a, b)
      [] red = "mean" -> << FAdd(a[1], b[1]), a[2] + b[2] >>
      [] red = "count_cat" -> [k \in Cats |-> a[k] + b[k]]

EmptyAgg(c, red) == [cell \in Cells(c) |-> InitCell(red)]

MergeAgg(red, a, b) == [cell \in DOMAIN a |-> MergeCell(red, a[cell], b[cell])]

\* A record whose coordinates can be rasterized.
Finite(r) == ~ IsNaN(r.x) /\ ~ IsNaN(r.y)

\* Point glyph: the record updates the one bin it is projected to.
AddPoint(c, red, agg, r) ==
    IF ~ Finite(r) THEN agg
    ELSE [agg EXCEPT ![project(c, r.x, r.y)] = UpdateCell(red, @, r)]

\* One pass over the first k records, in dataframe order.
RECURSIVE SinglePass(_, _, _, _)
SinglePass(c, red, recs, k) ==
    IF k = 0 THEN EmptyAgg(c, red)
    ELSE AddPoint(c, red, SinglePass(c, red, recs, k - 1), recs[k])

MkRecord(x, y, val, cat) == [x |-> x, y |-> y, val |-> val, cat |-> cat]

\* Inputs of the aggregation
PointCanvases == { MkCanvas(2, 2, 0, 2, 0, 2), MkCanvas(3, 1, -1, 2, 0, 1) }
PointRecords ==
    { MkRecord(0, 0, 8, "d1"), MkRecord(0, 0, 1, "d2"),
      MkRecord(1, 1, 2, "d1"), MkRecord(5, -3, 1, "d2"),
      MkRecord(NaN, 1, 8, "d1"), MkRecord(1, 1, NaN, "d2") }

RECURSIVE SeqsUpTo(_, _)
SeqsUpTo(S, n) ==
    IF n = 0 THEN { << >> }
    ELSE LET shorter == SeqsUpTo(S, n - 1)
         IN  shorter \cup { Append(q, e) : q \in shorter, e \in S }

\* Canvas(width=10, height=10, x_range=(0,10), y_range=(0,10)) with point
\* records (1,1), (1,1), (5,5)
ScenarioCanvas == MkCanvas(10, 10, 0, 10, 0, 10)
ScenarioRecords ==
    << MkRecord(1, 1, 1, "d1"), MkRecord(1, 1, 1, "d1"),
       MkRecord(5, 5, 1, "d1") >>

Init ==
    /\ pc = "streaming"
    /\ \/ /\ canvas \in PointCanvases
          /\ records \in SeqsUpTo(PointRecords, MaxRecords)
          /\ reduction \in Reductions
       \/ /\ canvas = ScenarioCanvas
          /\ records = ScenarioRecords
          /\ reduction \in {"count", "any"}
    /\ request = canvas
    /\ err = "none"
    /\ probes = << >>
    /\ pending = 1 .. Len(records)
    /\ inOrder = TRUE
    /\ chunk = EmptyAgg(canvas, reduction)
    /\ chunkLen = 0
    /\ total = EmptyAgg(canvas, reduction)
    /\ nflush = 0
    /\ path = << >> /\ left = NoAgg /\ right = NoAgg /\ combined = NoAgg
    /\ how = "linear" /\ span = NoSpan /\ cmap = << >> /\ image = NoImage
    /\ shaded = NoAgg /\ degen = 1 /\ summary = NoAgg /\ views = << >>
    /\ mask = NoMask /\ spreadImg = NoImage /\ column = ColumnOf(reduction)

\* The datapoint of index i is streamed into the current batch.
Consume(i) ==
    /\ pc = "streaming"
    /\ i \in pending
    /\ chunk' = AddPoint(canvas, reduction, chunk, records[i])
    /\ chunkLen' = chunkLen + 1
    /\ pending' = pending \ {i}
    /\ inOrder' = (inOrder /\ i = SetMin(pending))
    /\ UNCHANGED << pc, request, canvas, err, probes, records, reduction,
                    total, nflush, path, left, right, combined, how, span,
                    cmap, image, shaded, degen, summary,
                    views, mask, spreadImg, column >>

\* The current batch ends: its bins are merged into the result.
Flush ==
    /\ pc = "streaming"
    /\ chunkLen > 0 \/ (pending = {} /\ nflush = 0)
    /\ total' = MergeAgg(reduction, total, chunk)
    /\ chunk' = EmptyAgg(canvas, reduction)
    /\ chunkLen' = 0
    /\ nflush' = nflush + 1
    /\ pc' = IF pending = {} THEN "done" ELSE "streaming"
    /\ UNCHANGED << request, canvas, err, probes, records, reduction, pending,
                    inOrder, path, left, right, combined, how, span, cmap,
                    image, shaded, degen, summary,
                    views, mask, spreadImg, column >>

Next ==
    \/ \E i \in 1 .. MaxRecords : Consume(i)
    \/ Flush

Spec == Init /\ [][Next]_vars

Done == pc = "done"

Consumed == (1 .. Len(records)) \ pending

\* The records among those of indices I that the Point glyph bins into cell.
BinnedIn(cell, I) ==
    { i \in I : Finite(records[i])
                /\ project(canvas, records[i].x, records[i].y) = cell }

RECURSIVE SumVals(_)
SumVals(I) ==
    IF I = {} THEN 0
    ELSE LET i == CHOOSE j \in I : TRUE
         IN  (IF IsNaN(records[i].val) THEN 0 ELSE records[i].val)
             + SumVals(I \ {i})

\* No addition of the column's values in any bin rounds: every partial sum
\* is an integer of at most FloatBits bits.
ExactSums ==
    \A cell \in Cells(canvas) :
        SumVals(BinnedIn(cell, 1 .. Len(records))) <= 2^FloatBits

NoRounding == reduction \in {"sum", "mean"} => ExactSums

\* C1 as stated: for each of count, any, sum, mean, count_cat, one pass over
\* any permutation of the records gives the Aggregate of the pass in
\* dataframe order, cell for cell.
C1_OrderIndependent ==
    (Done /\ nflush = 1) =>
        total = SinglePass(canvas, reduction, records, Len(records))

\* C1 amended: the same for count, any and count_cat, and for sum and mean
\* whenever no floating-point addition rounds.
C1_OrderIndependentExact ==
    (Done /\ nflush = 1 /\ NoRounding) =>
        total = SinglePass(canvas, reduction, records, Len(records))

\* Three records were streamed out of dataframe order in one batch under
\* sum, two of them with a value into the same bin.
C1_Witness ==
    /\ Done /\ nflush = 1 /\ ~ inOrder /\ Len(records) = 3
    /\ reduction = "sum" /\ ExactSums
    /\ \E cell \in Cells(canvas) :
          /\ Cardinality(BinnedIn(cell, 1 .. 3)) >= 2
          /\ total[cell] = 3

\* C2 as stated: for each of count, any, sum, mean, count_cat, every split
\* of the record sequence into consecutive batches, merged by the combine
\* rule, gives exactly the Aggregate of one single pass.
C2_BatchIndependent ==
    (Done /\ inOrder) =>
        total = SinglePass(canvas, reduction, records, Len(records))

\* C2 amended: the same for count, any and count_cat, and for sum and mean
\* whenever no floating-point addition rounds.
C2_BatchIndependentExact ==
    (Done /\ inOrder /\ NoRounding) =>
        total = SinglePass(canvas, reduction, records, Len(records))

\* Three records were streamed in dataframe order as three batches under
\* mean, and some bin merged the states of two batches.
C2_Witness ==
    /\ Done /\ inOrder /\ nflush = 3 /\ Len(records) = 3
    /\ reduction = "mean" /\ ExactSums
    /\ \E cell \in Cells(canvas) : total[cell][2] = 2 /\ total[cell][1] = 3

\* The sum of the bins of S, one column of the grid after the other.
RECURSIVE SumColumn(_, _, _)
SumColumn(agg, S, ys) ==
    IF ys = {} THEN 0
    ELSE LET y == CHOOSE v \in ys : TRUE
             x == (CHOOSE c \in S : TRUE)[1]
         IN  agg[<< x, y >>] + SumColumn(agg, S, ys \ {y})

RECURSIVE SumColumns(_, _, _)
SumColumns(agg, S, xs) ==
    IF xs = {} THEN 0
    ELSE LET x == CHOOSE v \in xs : TRUE
             col == { c \in S : c[1] = x }
         IN  SumColumn(agg, col, { c[2] : c \in col })
             + SumColumns(agg, S, xs \ {x})

SumCells(agg, S) == SumColumns(agg, S, { c[1] : c \in S })

\* C5: under count with the Point glyph, every streamed record with finite
\* coordinates, inside the ranges or not, is counted in exactly one cell
\* (the cell project gives), so the cells sum to the number of such
\* records; the scenario's 10x10 aggregate holds 2 at (1,1), 1 at (5,5) and
\* 0 elsewhere.
C5_PointCountsOnce ==
    reduction = "count" =>
        /\ \A cell \in Cells(canvas) :
              total[cell] + chunk[cell] = Cardinality(BinnedIn(cell, Consumed))
        /\ SumCells(total, Cells(canvas)) + SumCells(chunk, Cells(canvas))
              = Cardinality({ i \in Consumed : Finite(records[i]) })
        /\ (Done /\ canvas = ScenarioCanvas) =>
              total = [cell \in Cells(canvas) |->
                          IF cell = << 1, 1 >> THEN 2
                          ELSE IF cell = << 5, 5 >> THEN 1 ELSE 0]

\* A count finished in which a record right of x_range and below y_range
\* was counted in an edge cell, next to a record with a NaN coordinate
\* that was counted nowhere.
C5_Witness ==
    /\ Done /\ reduction = "count" /\ Len(records) = 3
    /\ \E i \in 1 .. 3 :
          /\ records[i].x > canvas.xh /\ records[i].y < canvas.yl
          /\ total[<< canvas.w - 1, 0 >>] >= 1
    /\ \E i \in 1 .. 3 : ~ Finite(records[i])
    /\ SumCells(total, Cells(canvas)) = 2

----------------------------------------------------------------------------
(* Aggregation: Line glyph *)

Abs(d) == IF d < 0 THEN -d ELSE d
Sign(d) == IF d > 0 THEN 1 ELSE IF d < 0 THEN -1 ELSE 0

\* Bresenham's walk from cell (x, y) to cell (x1, y1): dx = |x1 - x0|,
\* dy = -|y1 - y0|, (sx, sy) the step directions, e the running error.
RECURSIVE Bresenham(_, _, _, _, _, _, _, _, _)
Bresenham(x, y, x1, y1, dx, dy, sx, sy, e) ==
    IF x = x1 /\ y = y1 THEN << << x, y >> >>
    ELSE LET stepx == 2 * e >= dy
             stepy == 2 * e <= dx
         IN  << << x, y >> >> \o
             Bresenham(IF stepx THEN x + sx ELSE x,
                       IF stepy THEN y + sy ELSE y,
                       x1, y1, dx, dy, sx, sy,
                       e + (IF stepx THEN dy ELSE 0) + (IF stepy THEN dx ELSE 0))

\* The segment without its last cell.
Segment_open(a, b) ==
    LET dx == Abs(b[1] - a[1])
        dy == - Abs(b[2] - a[2])
        full == Bresenham(a[1], a[2], b[1], b[2], dx, dy,
                          Sign(b[1] - a[1]), Sign(b[2] - a[2]), dx + dy)
    IN  IF Len(full) > 1 THEN SubSeq(full, 1, Len(full) - 1) ELSE full

\* The cells of the discrete line segment from cell a to cell b, both
\* included, in order.
Segment(a, b) ==
    LET dx == Abs(b[1] - a[1])
        dy == - Abs(b[2] - a[2])
    IN  Bresenham(a[1], a[2], b[1], b[2], dx, dy,
                  Sign(b[1] - a[1]), Sign(b[2] - a[2]), dx + dy)

\* The reduction operator applied to the first k cells of a path.
RECURSIVE MarkPath(_, _, _, _, _)
MarkPath(red, agg, cells, k, r) ==
    IF k = 0 THEN agg
    ELSE [MarkPath(red, agg, cells, k - 1, r)
             EXCEPT ![cells[k]] = UpdateCell(red, @, r)]

\* The path of the segment between two records with valid coordinates.
SegmentPath(c, r1, r2) ==
    Segment(project(c, r1.x, r1.y), project(c, r2.x, r2.y))

DrawSegment(c, red, agg, r1, r2) ==
    LET cells == SegmentPath(c, r1, r2)
    IN  MarkPath(red, agg, cells, Len(cells), r1)

\* Only the first endpoint is tested for NaN.
AddSegment_first(c, red, agg, r1, r2) ==
    IF Finite(r1) THEN DrawSegment(c, red, agg, r1, r2) ELSE agg

\* Line glyph: a pair of consecutive records updates every cell between
\* them; a segment with a NaN endpoint is skipped.
AddSegment(c, red, agg, r1, r2) ==
    IF Finite(r1) /\ Finite(r2) THEN DrawSegment(c, red, agg, r1, r2)
    ELSE agg

\* Inputs of the line aggregation
LineCanvases == { MkCanvas(4, 4, 0, 4, 0, 4), MkCanvas(3, 2, 0, 4, 0, 4) }
LinePoints ==
    { MkRecord(0, 0, 1, "d1"), MkRecord(3, 3, 1, "d1"),
      MkRecord(3, 1, 1, "d1"), MkRecord(1, 3, 1, "d1"),
      MkRecord(NaN, 1, 1, "d1"), MkRecord(2, NaN, 1, "d1") }

InitLine ==
    /\ canvas \in LineCanvases
    /\ records \in SeqsUpTo(LinePoints, MaxLineRecords)
    /\ reduction \in {"any", "count"}
    /\ pending = 1 .. (Len(records) - 1)
    /\ pc = IF pending = {} THEN "done" ELSE "drawing"
    /\ request = canvas
    /\ err = "none"
    /\ probes = << >>
    /\ inOrder = TRUE
    /\ chunk = NoAgg
    /\ chunkLen = 0
    /\ total = EmptyAgg(canvas, reduction)
    /\ nflush = 0
    /\ path = << >> /\ left = NoAgg /\ right = NoAgg /\ combined = NoAgg
    /\ how = "linear" /\ span = NoSpan /\ cmap = << >> /\ image = NoImage
    /\ shaded = NoAgg /\ degen = 1 /\ summary = NoAgg /\ views = << >>
    /\ mask = NoMask /\ spreadImg = NoImage /\ column = ColumnOf(reduction)

\* The pass reaches the next pair of consecutive records; probes keeps the
\* pair and path the cells drawn for it (none when it was skipped).
LineStep ==
    /\ pc = "drawing"
    /\ LET i == SetMin(pending)
           r1 == records[i]
           r2 == records[i + 1]
       IN  /\ total' = AddSegment(canvas, reduction, total, r1, r2)
           /\ probes' = << r1, r2 >>
           /\ path' = IF Finite(r1) /\ Finite(r2)
                        THEN SegmentPath(canvas, r1, r2) ELSE << >>
           /\ pending' = pending \ {i}
    /\ pc' = IF pending' = {} THEN "done" ELSE "drawing"
    /\ UNCHANGED << request, canvas, err, records, reduction, inOrder, chunk,
                    chunkLen, nflush, left, right, combined, how, span, cmap,
                    image, shaded, degen, summary,
                    views, mask, spreadImg, column >>

NextLine == LineStep

SpecLine == InitLine /\ [][NextLine]_vars

\* The maximal runs of records with valid coordinates, in order.
RECURSIVE Runs(_, _, _, _)
Runs(recs, i, cur, acc) ==
    IF i > Len(recs) THEN Append(acc, cur)
    ELSE IF Finite(recs[i])
         THEN Runs(recs, i + 1, Append(cur, recs[i]), acc)
         ELSE Runs(recs, i + 1, << >>, Append(acc, cur))

\* The line aggregate of the first k records of a run without NaN.
RECURSIVE RunPass(_, _, _, _)
RunPass(c, red, run, k) ==
    IF k <= 1 THEN EmptyAgg(c, red)
    ELSE DrawSegment(c, red, RunPass(c, red, run, k - 1), run[k - 1], run[k])

\* The aggregates of the first n runs, each drawn on its own, merged.
RECURSIVE RunsAggregate(_, _, _, _)
RunsAggregate(c, red, runs, n) ==
    IF n = 0 THEN EmptyAgg(c, red)
    ELSE MergeAgg(red, RunsAggregate(c, red, runs, n - 1),
                  RunPass(c, red, runs[n], Len(runs[n])))

\* C6: a segment with a NaN endpoint marks no cell and the pass goes on:
\* the finished Aggregate is the one of the runs between the NaN records,
\* each drawn as a separate line.
C6_NaNSplitsRuns ==
    /\ err = "none"
    /\ (path = << >> /\ Len(probes) = 2) =>
          (~ Finite(probes[1]) \/ ~ Finite(probes[2]))
    /\ Done =>
          LET runs == Runs(records, 1, << >>, << >>)
          IN  total = RunsAggregate(canvas, reduction, runs, Len(runs))

\* A pass finished over valid, NaN, valid, valid: the last segment was
\* drawn after two segments were skipped.
C6_Witness ==
    /\ Done /\ Len(records) = 4
    /\ Finite(records[1]) /\ ~ Finite(records[2])
    /\ Finite(records[3]) /\ Finite(records[4])
    /\ records[3] # records[4]
    /\ Len(path) >= 3
    /\ \E cell \in Cells(canvas) : total[cell] >= 1

\* C7: a drawn segment starts at the projected cell of its first record,
\* ends at that of its second, moves to a neighbouring cell at each step and
\* stays within half a cell of the straight line; all its cells are marked.
\* The line (0,0)-(3,3) on the 4x4 grid over (0,4)x(0,4) under any marks
\* exactly (0,0), (1,1), (2,2), (3,3).
C7_SegmentConnected ==
    /\ path # << >> =>
          LET a == project(canvas, probes[1].x, probes[1].y)
              b == project(canvas, probes[2].x, probes[2].y)
              DX == b[1] - a[1]
              DY == b[2] - a[2]
          IN  /\ path[1] = a
              /\ path[Len(path)] = b
              /\ Len(path) = Max2(Abs(DX), Abs(DY)) + 1
              /\ \A k \in 1 .. Len(path) - 1 :
                    Max2(Abs(path[k + 1][1] - path[k][1]),
                         Abs(path[k + 1][2] - path[k][2])) = 1
              /\ \A k \in 1 .. Len(path) :
                    /\ 2 * Abs((path[k][1] - a[1]) * DY - (path[k][2] - a[2]) * DX)
                          <= Max2(Abs(DX), Abs(DY))
                    /\ total[path[k]] >= 1
    /\ (/\ Done /\ reduction = "any"
        /\ canvas = MkCanvas(4, 4, 0, 4, 0, 4)
        /\ records = << MkRecord(0, 0, 1, "d1"), MkRecord(3, 3, 1, "d1") >>) =>
          total = [cell \in Cells(canvas) |->
                      IF cell[1] = cell[2] THEN 1 ELSE 0]

\* A segment that is neither horizontal, vertical nor diagonal was drawn
\* over three cells.
C7_Witness ==
    /\ Len(path) >= 3
    /\ Abs(path[Len(path)][1] - path[1][1]) = 2
    /\ Abs(path[Len(path)][2] - path[1][2]) = 1
    /\ \A k \in 1 .. Len(path) : total[path[k]] >= 1

----------------------------------------------------------------------------
(* Transformation: combining aggregates *)

\* An aggregate array together with the axis information of its Canvas.
MkAgg(c, data) == [canvas |-> c, data |-> data]

\* Only the array shapes are compared.
Combinable_shape(a, b) == a.canvas.w = b.canvas.w /\ a.canvas.h = b.canvas.h

\* Aggregates can be combined when they were constructed using the same
\* Canvas: the same array size and the same axis ranges.
Combinable(a, b) == a.canvas = b.canvas

CombineData(a, b) == [cell \in DOMAIN a |-> a[cell] + b[cell]]

\* Inputs of the combination
CombineCanvases ==
    { MkCanvas(2, 2, 0, 2, 0, 2), MkCanvas(2, 2, 0, 4, 0, 2),
      MkCanvas(2, 2, 0, 2, -2, 2), MkCanvas(3, 2, 0, 2, 0, 2),
      MkCanvas(2, 1, 0, 2, 0, 2) }
CombineRecords == { MkRecord(0, 0, 1, "d1"), MkRecord(1, 1, 1, "d2") }
CombineFrames == SeqsUpTo(CombineRecords, 2)

InitCombine ==
    /\ pc = "building"
    /\ left = NoAgg /\ right = NoAgg /\ combined = NoAgg
    /\ err = "none"
    /\ request = NoCanvas /\ canvas = NoCanvas
    /\ probes = << >>
    /\ IdleRest

\* left = canvas.points(df, 'x', 'y') on Canvas c
BuildLeft(c, recs) ==
    /\ pc = "building"
    /\ left = NoAgg
    /\ left' = MkAgg(c, SinglePass(c, "count", recs, Len(recs)))
    /\ UNCHANGED << pc, request, canvas, err, probes, records, reduction,
                    pending, inOrder, chunk, chunkLen, total, nflush, path,
                    right, combined, how, span, cmap, image, shaded, degen, summary,
                    views, mask, spreadImg, column >>

BuildRight(c, recs) ==
    /\ pc = "building"
    /\ right = NoAgg
    /\ right' = MkAgg(c, SinglePass(c, "count", recs, Len(recs)))
    /\ UNCHANGED << pc, request, canvas, err, probes, records, reduction,
                    pending, inOrder, chunk, chunkLen, total, nflush, path,
                    left, combined, how, span, cmap, image, shaded, degen, summary,
                    views, mask, spreadImg, column >>

\* The two aggregates are combined cell by cell.
Combine ==
    /\ pc = "building"
    /\ left # NoAgg /\ right # NoAgg
    /\ IF Combinable(left, right)
         THEN /\ combined' = MkAgg(left.canvas, CombineData(left.data, right.data))
              /\ err' = "none"
              /\ pc' = "combined"
         ELSE /\ combined' = NoAgg
              /\ err' = "ShapeMismatchError"
              /\ pc' = "failed"
    /\ UNCHANGED << request, canvas, probes, records, reduction, pending,
                    inOrder, chunk, chunkLen, total, nflush, path, left,
                    right, how, span, cmap, image, shaded, degen, summary,
                    views, mask, spreadImg, column >>

NextCombine ==
    \/ \E c \in CombineCanvases, recs \in CombineFrames : BuildLeft(c, recs)
    \/ \E c \in CombineCanvases, recs \in CombineFrames : BuildRight(c, recs)
    \/ Combine

SpecCombine == InitCombine /\ [][NextCombine]_vars

\* The two operands were built from Canvases equal in all four settings.
SameCanvasSettings ==
    /\ left.canvas.w = right.canvas.w /\ left.canvas.h = right.canvas.h
    /\ left.canvas.xl = right.canvas.xl /\ left.canvas.xh = right.canvas.xh
    /\ left.canvas.yl = right.canvas.yl /\ left.canvas.yh = right.canvas.yh

\* C9: a combination yields a combined aggregate only when both operands
\* come from Canvases with identical width, height, x_range and y_range;
\* when any differs, equal shapes included, it fails with
\* ShapeMismatchError at combine time and yields nothing.
C9_CombineNeedsSameCanvas ==
    /\ pc = "building" => (err = "none" /\ combined = NoAgg)
    /\ pc \in {"combined", "failed"} =>
          /\ (pc = "combined") <=> SameCanvasSettings
          /\ (combined # NoAgg) <=> SameCanvasSettings
          /\ (err = "ShapeMismatchError") <=> ~ SameCanvasSettings
          /\ SameCanvasSettings =>
                /\ combined.canvas = left.canvas
                /\ \A cell \in Cells(left.canvas) :
                      combined.data[cell] = left.data[cell] + right.data[cell]

\* Two aggregates of the same array shape but different x ranges were
\* refused.
C9_Witness ==
    /\ pc = "failed" /\ err = "ShapeMismatchError" /\ combined = NoAgg
    /\ left.canvas.w = right.canvas.w /\ left.canvas.h = right.canvas.h
    /\ left.canvas.xh # right.canvas.xh
    /\ left.canvas.yl = right.canvas.yl /\ left.canvas.yh = right.canvas.yh

----------------------------------------------------------------------------
(* Colormapping: tf.interpolate *)

\* Transformed values are fixed-point numbers: Scale stands for 1.0.
Scale == 1000

\* An aggregate of integer type (counts); the others are floating-point.
IntegerAgg(red) == red \in {"count", "any"}

\* Only NaN is masked, also in an integer array.
Masked_nanonly(red, v) == IsNaN(v)

\* Mask: NaN in a floating-point array, zero in an integer array.
Masked(red, v) == IF IntegerAgg(red) THEN v = 0 ELSE IsNaN(v)

Unmasked(red, agg) == { cell \in DOMAIN agg : ~ Masked(red, agg[cell]) }

\* np.log1p, in thousandths, of 0 .. 8
Log1pTable == << 0, 693, 1099, 1386, 1609, 1792, 1946, 2079, 2197 >>
Log1p(d) == Log1pTable[d + 1]

\* A rank that counts only the strictly smaller unmasked values.
EqHist_strict(red, agg, v) ==
    LET U == Unmasked(red, agg)
    IN  (Scale * Cardinality({ cell \in U : agg[cell] < v })) \div Cardinality(U)

\* Fractional rank of v among the unmasked values: the empirical CDF.
EqHist(red, agg, v) ==
    LET U == Unmasked(red, agg)
    IN  (Scale * Cardinality({ cell \in U : agg[cell] <= v })) \div Cardinality(U)

\* Transform: the function how of the difference between the bin value
\* and the minimum non-masked bin value.
Transform(h, red, agg, v) ==
    LET offset == SetMin({ agg[cell] : cell \in Unmasked(red, agg) })
        d == v - offset
    IN  CASE h = "linear" -> Scale * d
          [] h = "log" -> Log1p(d)
          [] h = "eq_hist" -> EqHist(red, agg, v)
          [] h = "custom" -> Scale * d * d

\* The lowest and highest non-masked transformed values.
ObservedSpan(h, red, agg) ==
    LET T == { Transform(h, red, agg, agg[cell]) : cell \in Unmasked(red, agg) }
    IN  << SetMin(T), SetMax(T) >>

\* The top of the span is not reached.
Interp_short(c0, c1, t, l, hi) ==
    c0 + ((c1 - c0) * (Clamp(t, l, hi) - l)) \div (hi - l + 1)

\* One color channel, linearly interpolated over the span (l, hi), l < hi.
Interp(c0, c1, t, l, hi) ==
    c0 + ((c1 - c0) * (Clamp(t, l, hi) - l)) \div (hi - l)

Transparent == << 0, 0, 0, 0 >>
Opaque == 255

\* Map: the pixel of a bin; flat is the colormap entry taken when the span
\* is a single value.
Pixel(h, red, agg, cm, sp, flat, cell) ==
    IF Masked(red, agg[cell]) THEN Transparent
    ELSE LET t == Transform(h, red, agg, agg[cell])
             s == IF sp = NoSpan THEN ObservedSpan(h, red, agg) ELSE sp
             c0 == cm[1]
             c1 == cm[2]
         IN  IF s[1] = s[2]
             THEN << cm[flat][1], cm[flat][2], cm[flat][3], Opaque >>
             ELSE << Interp(c0[1], c1[1], t, s[1], s[2]),
                     Interp(c0[2], c1[2], t, s[1], s[2]),
                     Interp(c0[3], c1[3], t, s[1], s[2]), Opaque >>

interpolate(h, red, agg, cm, sp, flat) ==
    [cell \in DOMAIN agg |-> Pixel(h, red, agg, cm, sp, flat, cell)]

\* Inputs of the colormapping
RenderCanvas == MkCanvas(2, 2, 0, 2, 0, 2)
IntBins == {0, 1, 2, 5}
FloatBins == {NaN, 0, 1, 5}
Hows == {"linear", "log", "eq_hist", "custom"}
Spans == { NoSpan, << 0, 4000 >> }
LightBlue == << 173, 216, 230 >>
DarkBlue == << 0, 0, 139 >>
DarkRed == << 139, 0, 0 >>
Yellow == << 255, 255, 0 >>
Colormaps == { << LightBlue, DarkBlue >>, << DarkRed, Yellow >> }

\* The transformed array: NaN where the bin is masked.
Shade(h, red, agg) ==
    [cell \in DOMAIN agg |->
        IF Masked(red, agg[cell]) THEN NaN
        ELSE Transform(h, red, agg, agg[cell])]

InitRender ==
    /\ pc = "aggregated"
    /\ \/ /\ canvas = RenderCanvas
          /\ \/ /\ reduction = "count"
                /\ total \in [Cells(RenderCanvas) -> IntBins]
             \/ /\ reduction = "mean"
                /\ total \in [Cells(RenderCanvas) -> FloatBins]
       \/ /\ canvas = ScenarioCanvas
          /\ reduction = "count"
          /\ total = SinglePass(ScenarioCanvas, "count", ScenarioRecords,
                                Len(ScenarioRecords))
    /\ request = canvas
    /\ how \in Hows
    /\ span \in Spans
    /\ cmap \in Colormaps
    /\ degen \in {1, 2}
    /\ image = NoImage
    /\ shaded = NoAgg
    /\ err = "none"
    /\ probes = << >>
    /\ records = << >> /\ pending = {} /\ inOrder = TRUE
    /\ chunk = NoAgg /\ chunkLen = 0 /\ nflush = 0 /\ path = << >>
    /\ left = NoAgg /\ right = NoAgg /\ combined = NoAgg
    /\ summary = NoAgg /\ views = << >>
    /\ mask = NoMask /\ spreadImg = NoImage /\ column = ColumnOf(reduction)

\* img = tf.interpolate(agg, cmap=cmap, how=how)
Render ==
    /\ pc = "aggregated"
    /\ shaded' = Shade(how, reduction, total)
    /\ image' = interpolate(how, reduction, total, cmap, span, degen)
    /\ pc' = "rendered"
    /\ UNCHANGED << request, canvas, err, probes, records, reduction, pending,
                    inOrder, chunk, chunkLen, total, nflush, path, left,
                    right, combined, how, span, cmap, degen, summary, views,
                    mask, spreadImg, column >>

NextRender == Render

SpecRender == InitRender /\ [][NextRender]_vars

\* A bin the claim calls masked: exactly zero in an integer aggregate, NaN
\* in a floating aggregate.
MaskedBin(cell) ==
    IF reduction \in {"count", "any"} THEN total[cell] = 0
    ELSE total[cell] = NaN

\* C4: in every Image produced, every masked cell has alpha 0, for each of
\* linear, log, eq_hist and a custom how, with or without an explicit span.
C4_MaskedTransparent ==
    pc = "rendered" =>
        \A cell \in Cells(canvas) : MaskedBin(cell) => image[cell][4] = 0

\* An integer aggregate with an empty bin and two different counts was
\* rendered with a custom how and an explicit span: the empty bin is
\* transparent and the others are opaque.
C4_Witness ==
    /\ pc = "rendered" /\ reduction = "count" /\ how = "custom"
    /\ span # NoSpan
    /\ total[<< 0, 0 >>] = 0 /\ image[<< 0, 0 >>][4] = 0
    /\ total[<< 1, 0 >>] = 1 /\ image[<< 1, 0 >>][4] = 255
    /\ total[<< 1, 1 >>] = 5 /\ image[<< 1, 1 >>][4] = 255

UnmaskedBins == { cell \in Cells(canvas) : ~ MaskedBin(cell) }
MinUnmasked == SetMin({ total[cell] : cell \in UnmaskedBins })
MaxUnmasked == SetMax({ total[cell] : cell \in UnmaskedBins })
Rgb(px) == << px[1], px[2], px[3] >>

EndpointColors ==
    \A cell \in UnmaskedBins :
        /\ total[cell] = MinUnmasked => Rgb(image[cell]) = cmap[1]
        /\ total[cell] = MaxUnmasked => Rgb(image[cell]) = cmap[2]

\* C10 as stated: with how=linear, a two-color colormap and the observed
\* span, every aggregate with at least one unmasked cell gets the first
\* color at its minimum unmasked value and the second at its maximum.
C10_EndpointColors ==
    (pc = "rendered" /\ how = "linear" /\ span = NoSpan
        /\ UnmaskedBins # {}) => EndpointColors

\* C10 amended: the same for every aggregate with at least two different
\* unmasked values.
C10_EndpointColorsTwoValues ==
    (pc = "rendered" /\ how = "linear" /\ span = NoSpan
        /\ UnmaskedBins # {} /\ MinUnmasked < MaxUnmasked) => EndpointColors

\* Three different unmasked values were rendered linearly over the observed
\* span: the lowest has the first color, the highest the second, the middle
\* one neither.
C10_Witness ==
    /\ pc = "rendered" /\ how = "linear" /\ span = NoSpan
    /\ reduction = "mean"
    /\ total = (<< 0, 0 >> :> 0 @@ << 0, 1 >> :> NaN @@ << 1, 0 >> :> 1
                @@ << 1, 1 >> :> 5)
    /\ Rgb(image[<< 0, 0 >>]) = cmap[1]
    /\ Rgb(image[<< 1, 1 >>]) = cmap[2]
    /\ Rgb(image[<< 1, 0 >>]) \notin {cmap[1], cmap[2]}

\* The fractional rank, in thousandths, of the k-th of n cells.
RankValue(k, n) == (Scale * k) \div n

\* Every unmasked cell holds its fractional rank, a value in [0,1].
RanksInUnitInterval ==
    \A cell \in UnmaskedBins :
        /\ shaded[cell] \in 0 .. Scale
        /\ shaded[cell] =
             RankValue(Cardinality({ c \in UnmaskedBins :
                                       total[c] <= total[cell] }),
                       Cardinality(UnmaskedBins))

\* The n unmasked cells hold the n rank values 1/n, 2/n, ..., 1, once each.
RanksUniform ==
    LET n == Cardinality(UnmaskedBins)
    IN  \A k \in 1 .. n :
            Cardinality({ cell \in UnmaskedBins :
                            shaded[cell] = RankValue(k, n) }) = 1

DistinctUnmasked ==
    \A a, b \in UnmaskedBins : a # b => total[a] # total[b]

\* C11 as stated: eq_hist replaces each unmasked value by its fractional
\* rank in [0,1], and the ranks are perfectly uniform over the unmasked
\* cells for every aggregate, ties included.
C11_EqHistUniform ==
    (pc = "rendered" /\ how = "eq_hist" /\ UnmaskedBins # {}) =>
        (RanksInUnitInterval /\ RanksUniform)

\* C11 amended: eq_hist replaces each unmasked value by its fractional rank
\* in [0,1] for every aggregate, and the ranks are perfectly uniform over
\* the unmasked cells when no two unmasked cells hold the same value.
C11_EqHistUniformDistinct ==
    (pc = "rendered" /\ how = "eq_hist" /\ UnmaskedBins # {}) =>
        /\ RanksInUnitInterval
        /\ DistinctUnmasked => RanksUniform

\* Three different unmasked values were equalised: the ranks are 1/3, 2/3
\* and 1, and the masked bin has none.
C11_Witness ==
    /\ pc = "rendered" /\ how = "eq_hist" /\ reduction = "mean"
    /\ total = (<< 0, 0 >> :> 5 @@ << 0, 1 >> :> NaN @@ << 1, 0 >> :> 0
                @@ << 1, 1 >> :> 1)
    /\ shaded = (<< 0, 0 >> :> 1000 @@ << 0, 1 >> :> NaN @@ << 1, 0 >> :> 333
                 @@ << 1, 1 >> :> 666)

----------------------------------------------------------------------------
\* Two views of the data rendered with the same colormap, how and span.

ViewCanvas == MkCanvas(2, 1, 0, 2, 0, 1)

InitViews ==
    /\ pc = "aggregated"
    /\ canvas = ViewCanvas
    /\ request = ViewCanvas
    /\ reduction = "count"
    /\ left \in [Cells(ViewCanvas) -> IntBins]
    /\ right \in [Cells(ViewCanvas) -> IntBins]
    /\ how \in Hows
    /\ span \in Spans \ {NoSpan}
    /\ cmap \in Colormaps
    /\ degen \in {1, 2}
    /\ views = << >>
    /\ image = NoImage /\ shaded = NoAgg
    /\ err = "none"
    /\ probes = << >>
    /\ records = << >> /\ pending = {} /\ inOrder = TRUE
    /\ total = NoAgg /\ chunk = NoAgg /\ chunkLen = 0 /\ nflush = 0
    /\ path = << >> /\ combined = NoAgg /\ summary = NoAgg
    /\ mask = NoMask /\ spreadImg = NoImage /\ column = ColumnOf(reduction)

\* tf.interpolate(agg, cmap=cmap, how=how) on the aggregate of one view
RenderView(agg) ==
    /\ pc = "aggregated"
    /\ image' = interpolate(how, reduction, agg, cmap, span, degen)
    /\ shaded' = Shade(how, reduction, agg)
    /\ views' = Append(views, [agg |-> agg, img |-> image'])
    /\ pc' = IF Len(views) = 1 THEN "rendered" ELSE "aggregated"
    /\ UNCHANGED << request, canvas, err, probes, records, reduction, pending,
                    inOrder, chunk, chunkLen, total, nflush, path, left,
                    right, combined, how, span, cmap, degen, summary, mask,
                    spreadImg, column >>

NextViews ==
    \/ Len(views) = 0 /\ RenderView(left)
    \/ Len(views) = 1 /\ RenderView(right)

SpecViews == InitViews /\ [][NextViews]_vars

----------------------------------------------------------------------------
\* summary(name1=op1, name2=op2, ...): several reductions in one pass.

SummaryOps == {"count", "any", "count_col", "sum", "mean", "count_cat"}
ColumnOps == {"count_col", "sum", "mean"}

\* Only the first reduction of the summary sees the datapoint.
SummaryUpdate_first(c, ops, sm, r) ==
    [op \in ops |-> IF op = "count" THEN AddPoint(c, op, sm[op], r)
                    ELSE sm[op]]

\* One datapoint updates the bin of every reduction of the summary.
SummaryUpdate(c, ops, sm, r) ==
    [op \in ops |-> AddPoint(c, op, sm[op], r)]

InitSummary ==
    /\ pc = "streaming"
    /\ canvas \in PointCanvases
    /\ request = canvas
    /\ records \in SeqsUpTo(PointRecords, MaxRecords)
    /\ summary = [op \in SummaryOps |-> EmptyAgg(canvas, op)]
    /\ chunkLen = 0
    /\ reduction = "count"
    /\ err = "none"
    /\ probes = << >>
    /\ pending = {} /\ inOrder = TRUE
    /\ total = NoAgg /\ chunk = NoAgg /\ nflush = 0 /\ path = << >>
    /\ left = NoAgg /\ right = NoAgg /\ combined = NoAgg
    /\ how = "linear" /\ span = NoSpan /\ cmap = << >> /\ image = NoImage
    /\ shaded = NoAgg /\ degen = 1 /\ views = << >>
    /\ mask = NoMask /\ spreadImg = NoImage /\ column = ColumnOf(reduction)

\* The traversal reaches the next record, in dataframe order.
SummaryStep ==
    /\ pc = "streaming"
    /\ chunkLen < Len(records)
    /\ summary' = SummaryUpdate(canvas, SummaryOps, summary,
                                records[chunkLen + 1])
    /\ chunkLen' = chunkLen + 1
    /\ pc' = IF chunkLen' = Len(records) THEN "aggregated" ELSE "streaming"
    /\ UNCHANGED << request, canvas, err, probes, records, reduction, pending,
                    inOrder, chunk, total, nflush, path, left, right,
                    combined, how, span, cmap, image, shaded, degen, views,
                    mask, spreadImg, column >>

NextSummary == SummaryStep

SpecSummary == InitSummary /\ [][NextSummary]_vars

\* The records the traversal has reached.
Seen == 1 .. chunkLen

\* C13: after every record of the one traversal, the summary holds under
\* each name exactly the aggregate a separate pass with that reduction
\* alone gives on the same records and canvas.
C13_SummaryEqualsSeparate ==
    summary # NoAgg =>
        \A op \in SummaryOps :
            summary[op] = SinglePass(canvas, op, records, chunkLen)

\* Three records were traversed once; two fell in one bin, and under the
\* names count, sum and count_cat the summary holds what three separate
\* passes give.
C13_Witness ==
    /\ summary # NoAgg /\ chunkLen = 3 /\ pc = "aggregated"
    /\ canvas = MkCanvas(2, 2, 0, 2, 0, 2)
    /\ records = << MkRecord(0, 0, 1, "d2"), MkRecord(1, 1, 2, "d1"),
                    MkRecord(0, 0, 8, "d1") >>
    /\ summary["count"][<< 0, 0 >>] = 2
    /\ summary["sum"][<< 1, 1 >>] = 2
    /\ summary["count_cat"][<< 0, 0 >>] = [k \in Cats |-> 1]
    /\ summary["any"][<< 1, 1 >>] = 1

\* The floating-point sum, in dataframe order, of the non-NaN values of the
\* first k records that fall in the bin.
RECURSIVE SumNonNaN(_, _)
SumNonNaN(cell, k) ==
    IF k = 0 THEN 0
    ELSE IF k \in BinnedIn(cell, 1 .. k) /\ ~ IsNaN(records[k].val)
         THEN FAdd(SumNonNaN(cell, k - 1), records[k].val)
         ELSE SumNonNaN(cell, k - 1)

CountNonNaN(cell, k) ==
    Cardinality({ i \in BinnedIn(cell, 1 .. k) : ~ IsNaN(records[i].val) })

\* C14: sum adds only the non-NaN values of the column, count(column)
\* counts only the records with a non-NaN value, mean keeps both, and a
\* record whose value is NaN leaves every bin of these aggregates as it
\* was before the record.
C14_NaNValueSkipped ==
    summary # NoAgg =>
        /\ \A cell \in Cells(canvas) :
              /\ summary["count_col"][cell] = CountNonNaN(cell, chunkLen)
              /\ summary["sum"][cell] = SumNonNaN(cell, chunkLen)
              /\ summary["mean"][cell] = << SumNonNaN(cell, chunkLen),
                                            CountNonNaN(cell, chunkLen) >>
        /\ (chunkLen > 0 /\ IsNaN(records[chunkLen].val)) =>
              \A op \in ColumnOps :
                  summary[op] = SinglePass(canvas, op, records, chunkLen - 1)

\* A record with value 2 and then a record with a NaN value fell in the
\* same bin: count sees two records, the column reductions see one.
C14_Witness ==
    /\ summary # NoAgg /\ chunkLen = 2
    /\ canvas = MkCanvas(2, 2, 0, 2, 0, 2)
    /\ records = << MkRecord(1, 1, 2, "d1"), MkRecord(1, 1, NaN, "d2") >>
    /\ summary["count"][<< 1, 1 >>] = 2
    /\ summary["count_col"][<< 1, 1 >>] = 1
    /\ summary["sum"][<< 1, 1 >>] = 2
    /\ summary["mean"][<< 1, 1 >>] = << 2, 1 >>

\* C18: with the Point glyph on the same records and canvas, any is 1 in
\* exactly the bins where count is nonzero and 0 in all the others.
C18_AnyIffCountNonzero ==
    summary # NoAgg =>
        \A cell \in Cells(canvas) :
            summary["any"][cell] =
                (IF summary["count"][cell] # 0 THEN 1 ELSE 0)

\* Two records fell in one bin and none in another: any is 1 where count
\* is 2 and 0 where count is 0.
C18_Witness ==
    /\ summary # NoAgg /\ pc = "aggregated"
    /\ \E a, b \in Cells(canvas) :
          /\ summary["count"][a] = 2 /\ summary["any"][a] = 1
          /\ summary["count"][b] = 0 /\ summary["any"][b] = 0

RECURSIVE SumCats(_, _)
SumCats(s, K) ==
    IF K = {} THEN 0
    ELSE LET k == CHOOSE c \in K : TRUE
         IN  s[k] + SumCats(s, K \ {k})

\* C19: summing the per-category counts of each bin of count_cat gives the
\* count aggregate of the same records, and every record with finite
\* coordinates is in exactly one category sub-slot of exactly one bin.
C19_CountCatCollapses ==
    summary # NoAgg =>
        /\ \A cell \in Cells(canvas) :
              /\ SumCats(summary["count_cat"][cell], Cats)
                    = summary["count"][cell]
              /\ \A k \in Cats :
                    summary["count_cat"][cell][k] =
                        Cardinality({ i \in BinnedIn(cell, Seen) :
                                        records[i].cat = k })
        /\ \A i \in Seen :
              Finite(records[i]) =>
                  Cardinality({ ck \in Cells(canvas) \X Cats :
                                  /\ i \in BinnedIn(ck[1], Seen)
                                  /\ records[i].cat = ck[2] }) = 1

\* Three records of two categories fell in one bin: two in d2 and one in
\* d1, three in all.
C19_Witness ==
    /\ summary # NoAgg /\ pc = "aggregated"
    /\ \E cell \in Cells(canvas) :
          /\ summary["count"][cell] = 3
          /\ summary["count_cat"][cell]["d1"] = 1
          /\ summary["count_cat"][cell]["d2"] = 2

\* The pixels of the rendered image that are not fully transparent.
NonTransparent == { cell \in Cells(canvas) : image[cell][4] # 0 }

\* C16: for an integer count aggregate the non-transparent pixels are
\* exactly the bins with a nonzero count: empty bins are fully transparent,
\* the others fully opaque; the scenario's three points render as exactly
\* two non-transparent pixels.
C16_NonTransparentIffCounted ==
    (pc = "rendered" /\ reduction = "count") =>
        /\ NonTransparent = { cell \in Cells(canvas) : total[cell] # 0 }
        /\ \A cell \in Cells(canvas) :
              /\ total[cell] = 0 => image[cell] = Transparent
              /\ total[cell] # 0 => image[cell][4] = Opaque
        /\ canvas = ScenarioCanvas =>
              /\ NonTransparent = { << 1, 1 >>, << 5, 5 >> }
              /\ Cardinality(NonTransparent) = 2

\* The scenario's aggregate (2 at (1,1), 1 at (5,5)) was rendered: two
\* opaque pixels, the rest transparent.
C16_Witness ==
    /\ pc = "rendered" /\ reduction = "count" /\ canvas = ScenarioCanvas
    /\ total[<< 1, 1 >>] = 2 /\ total[<< 5, 5 >>] = 1
    /\ image[<< 1, 1 >>][4] = Opaque /\ image[<< 5, 5 >>][4] = Opaque
    /\ image[<< 0, 0 >>] = Transparent
    /\ Cardinality(NonTransparent) = 2

----------------------------------------------------------------------------
\* create_image(x_range, y_range, w, h): the pipeline as a callback that is
\* invoked again for every pan or zoom.

MaxInvocations == 3

\* The aggregate handed back by the previous invocation is kept when it
\* has the shape of the new canvas.
FreshAggregate_reuse(c, red, prev) ==
    IF prev # NoAgg /\ DOMAIN prev = Cells(c) THEN prev ELSE EmptyAgg(c, red)

\* Every invocation starts from a new aggregate.
FreshAggregate(c, red, prev) == EmptyAgg(c, red)

\* agg = cvs.line(df, 'x', 'y', agg): the first k consecutive pairs of
\* records, drawn onto agg.
RECURSIVE LinePass(_, _, _, _, _)
LinePass(c, red, agg, recs, k) ==
    IF k = 0 THEN agg
    ELSE AddSegment(c, red, LinePass(c, red, agg, recs, k - 1),
                    recs[k], recs[k + 1])

\* tf.interpolate(agg) with its defaults
DefaultHow == "eq_hist"
DefaultCmap == << LightBlue, DarkBlue >>

create_image(req, recs, prev, flat) ==
    LET cvs == req
        agg == LinePass(cvs, "any", FreshAggregate(cvs, "any", prev), recs,
                        Len(recs) - 1)
    IN  [canvas |-> cvs, agg |-> agg,
         img |-> interpolate(DefaultHow, "any", agg, DefaultCmap, NoSpan,
                             flat)]

\* The dataframe: a trajectory, with or without a gap
Trajectories ==
    { << MkRecord(0, 0, 1, "d1"), MkRecord(3, 1, 1, "d1"),
         MkRecord(1, 3, 1, "d1") >>,
      << MkRecord(0, 0, 1, "d1"), MkRecord(3, 3, 1, "d1"),
         MkRecord(NaN, 1, 1, "d1"), MkRecord(1, 3, 1, "d1"),
         MkRecord(3, 1, 1, "d1") >> }

\* The full view, a zoom, a pan and a resize
ViewRequests ==
    { MkCanvas(4, 4, 0, 4, 0, 4), MkCanvas(4, 4, 1, 3, 1, 3),
      MkCanvas(4, 4, 2, 6, 0, 4), MkCanvas(3, 2, 0, 4, 0, 4) }

InitPipeline ==
    /\ pc = "idle"
    /\ records \in Trajectories
    /\ degen \in {1, 2}
    /\ views = << >>
    /\ request = NoCanvas /\ canvas = NoCanvas
    /\ reduction = "any"
    /\ total = NoAgg /\ image = NoImage /\ shaded = NoAgg
    /\ how = DefaultHow /\ span = NoSpan /\ cmap = DefaultCmap
    /\ err = "none"
    /\ probes = << >>
    /\ pending = {} /\ inOrder = TRUE
    /\ chunk = NoAgg /\ chunkLen = 0 /\ nflush = 0 /\ path = << >>
    /\ left = NoAgg /\ right = NoAgg /\ combined = NoAgg
    /\ summary = NoAgg /\ mask = NoMask /\ spreadImg = NoImage
    /\ column = ColumnOf(reduction)

\* The plot calls the callback with the ranges and size now visible.
Invoke(req) ==
    /\ Len(views) < MaxInvocations
    /\ ValidRequest(req)
    /\ LET out == create_image(req, records, total, degen)
       IN  /\ canvas' = out.canvas
           /\ total' = out.agg
           /\ image' = out.img
           /\ shaded' = Shade(how, reduction, out.agg)
           /\ views' = Append(views, [req |-> req, img |-> out.img])
    /\ request' = req
    /\ pc' = "rendered"
    /\ UNCHANGED << err, probes, records, reduction, pending, inOrder, chunk,
                    chunkLen, nflush, path, left, right, combined, how, span,
                    cmap, degen, summary, mask, spreadImg, column >>

NextPipeline == \E req \in ViewRequests : Invoke(req)

SpecPipeline == InitPipeline /\ [][NextPipeline]_vars

\* C17: over fixed records the image returned for a request depends on
\* the request alone: after any earlier invocations with other ranges or
\* sizes, invoking again with a request returns the image its first
\* invocation returned, and every invocation leaves a canvas and an
\* aggregate built for that request only.
C17_ImagePureInRequest ==
    /\ \A i, j \in 1 .. Len(views) :
          views[i].req = views[j].req => views[i].img = views[j].img
    /\ Len(views) > 0 =>
          /\ canvas = views[Len(views)].req
          /\ total = LinePass(canvas, "any", EmptyAgg(canvas, "any"),
                              records, Len(records) - 1)

\* The full view, then a pan of the same size that marks other pixels,
\* then the full view again: the third image is the first.
C17_Witness ==
    /\ Len(views) = 3
    /\ views[1].req = MkCanvas(4, 4, 0, 4, 0, 4)
    /\ views[2].req = MkCanvas(4, 4, 2, 6, 0, 4)
    /\ views[3].req = views[1].req
    /\ views[2].img # views[1].img
    /\ views[3].img = views[1].img

----------------------------------------------------------------------------
\* tf.spread(img, px, shape) and tf.spread(img, mask=mask)

SpreadCanvas == MkCanvas(5, 5, 0, 5, 0, 5)

\* A circle of radius px as a square array of 0 and 1; whether the circle
\* reaches the diagonal neighbours at px = 1 depends on the rule the
\* library takes for its edge: distance <= px, or distance <= px + 1/2.
CircleMask(px, rule) ==
    [i \in 1 .. 2 * px + 1 |->
        [j \in 1 .. 2 * px + 1 |->
            LET dy == i - px - 1
                dx == j - px - 1
                inside == IF rule = "tight"
                          THEN dx * dx + dy * dy <= px * px
                          ELSE 4 * (dx * dx + dy * dy)
                                  <= (2 * px + 1) * (2 * px + 1)
            IN  IF inside THEN 1 ELSE 0]]

SquareMask(px) == [i \in 1 .. 2 * px + 1 |-> [j \in 1 .. 2 * px + 1 |-> 1]]

\* mask = np.array([[1, 1, 1, 1, 1], [1, 0, 0, 0, 1], ...])
RingMask ==
    << << 1, 1, 1, 1, 1 >>,
       << 1, 0, 0, 0, 1 >>,
       << 1, 0, 0, 0, 1 >>,
       << 1, 0, 0, 0, 1 >>,
       << 1, 1, 1, 1, 1 >> >>

SpreadMasks ==
    { CircleMask(1, "tight"), CircleMask(1, "half"), CircleMask(2, "tight"),
      CircleMask(2, "half"), SquareMask(1), RingMask }

\* The mask laid with its top-left corner, not its centre, on the pixel.
Covers_corner(m, q, p) ==
    LET i == p[2] - q[2] + 1
        j == p[1] - q[1] + 1
    IN  i \in 1 .. Len(m) /\ j \in 1 .. Len(m) /\ m[i][j] = 1

\* The mask, centred over the pixel q, has a 1 at the pixel p.
Covers(m, q, p) ==
    LET r == (Len(m) - 1) \div 2
        i == p[2] - q[2] + r + 1
        j == p[1] - q[1] + r + 1
    IN  i \in 1 .. Len(m) /\ j \in 1 .. Len(m) /\ m[i][j] = 1

\* The "over" composite of the pixel src on top of the pixel dst.
Over(src, dst) ==
    IF dst[4] = 0 THEN src
    ELSE LET back == (dst[4] * (Opaque - src[4])) \div Opaque
             a == src[4] + back
         IN  << (src[1] * src[4] + dst[1] * back) \div a,
                (src[2] * src[4] + dst[2] * back) \div a,
                (src[3] * src[4] + dst[3] * back) \div a, a >>

\* The pixel q is replaced by the shape: composited on every pixel the
\* mask covers.
Stamp(out, img, m, q) ==
    [p \in DOMAIN out |->
        IF Covers(m, q, p) THEN Over(img[q], out[p]) ELSE out[p]]

\* Raster order of pixels: row by row.
RasterFirst(S) ==
    CHOOSE q \in S : \A o \in S : q[2] < o[2] \/ (q[2] = o[2] /\ q[1] <= o[1])

RECURSIVE StampAll(_, _, _, _)
StampAll(out, img, m, S) ==
    IF S = {} THEN out
    ELSE LET q == RasterFirst(S)
         IN  StampAll(Stamp(out, img, m, q), img, m, S \ {q})

spread(img, m) ==
    StampAll([p \in DOMAIN img |-> Transparent], img, m,
             { q \in DOMAIN img : img[q][4] # 0 })

\* Pixels of the images to spread: an opaque one and a half-transparent one
SpreadPixels == { << 0, 0, 255, 255 >>, << 255, 0, 0, 128 >> }
\* Where an image to spread may have a non-transparent pixel
SourceCells == { << 2, 2 >>, << 2, 3 >>, << 3, 3 >>, << 4, 2 >>, << 0, 0 >> }

SpreadImages ==
    { [p \in Cells(SpreadCanvas) |-> IF p \in DOMAIN f THEN f[p] ELSE Transparent] :
        f \in UNION { [S -> SpreadPixels] : S \in SUBSET SourceCells } }

InitSpread ==
    /\ pc = "rendered"
    /\ canvas = SpreadCanvas
    /\ request = SpreadCanvas
    /\ image \in SpreadImages
    /\ mask = NoMask
    /\ spreadImg = NoImage
    /\ column = NoColumn
    /\ reduction = "count"
    /\ err = "none"
    /\ probes = << >>
    /\ records = << >> /\ pending = {} /\ inOrder = TRUE
    /\ total = NoAgg /\ chunk = NoAgg /\ chunkLen = 0 /\ nflush = 0
    /\ path = << >> /\ left = NoAgg /\ right = NoAgg /\ combined = NoAgg
    /\ how = "linear" /\ span = NoSpan /\ cmap = << >>
    /\ shaded = NoAgg /\ degen = 1 /\ summary = NoAgg /\ views = << >>

\* tf.spread(img, px=px, shape=shape) or tf.spread(img, mask=mask)
Spread(m) ==
    /\ pc = "rendered"
    /\ mask' = m
    /\ spreadImg' = spread(image, m)
    /\ pc' = "spread"
    /\ UNCHANGED << request, canvas, err, probes, records, reduction, pending,
                    inOrder, chunk, chunkLen, total, nflush, path, left,
                    right, combined, how, span, cmap, image, shaded, degen,
                    summary, views, column >>

NextSpread == \E m \in SpreadMasks : Spread(m)

SpecSpread == InitSpread /\ [][NextSpread]_vars

\* The offsets from its centre at which the mask has a 1.
OnOffsets(m) ==
    LET r == (Len(m) - 1) \div 2
    IN  { d \in (-r .. r) \X (-r .. r) : m[d[2] + r + 1][d[1] + r + 1] = 1 }

Lit(img) == { p \in DOMAIN img : img[p][4] # 0 }

\* The 4 and the 8 neighbours of a pixel, within the image
Neighbours4(q) ==
    { p \in Cells(canvas) : Abs(p[1] - q[1]) + Abs(p[2] - q[2]) = 1 }
Neighbours8(q) ==
    { p \in Cells(canvas) : Max2(Abs(p[1] - q[1]), Abs(p[2] - q[2])) = 1 }

\* C15: after spreading with a mask, the pixel p is non-transparent exactly
\* when the mask of some non-transparent source pixel covers p; for one
\* isolated opaque pixel and the px=1 circular mask, the pixel itself and
\* its 4 or its 8 neighbours are non-transparent and every other pixel is
\* transparent.
C15_SpreadCoversMask ==
    pc = "spread" =>
        /\ \A p \in Cells(canvas) :
              spreadImg[p][4] # 0 <=>
                  \E q \in Lit(image) :
                      << p[1] - q[1], p[2] - q[2] >> \in OnOffsets(mask)
        /\ \A q \in Cells(canvas) :
              (Lit(image) = {q} /\ image[q][4] = Opaque
                  /\ mask \in {CircleMask(1, "tight"), CircleMask(1, "half")})
              => /\ Lit(spreadImg) \in { {q} \cup Neighbours4(q),
                                         {q} \cup Neighbours8(q) }
                 /\ spreadImg[q][4] # 0
                 /\ \A p \in Cells(canvas) :
                        Max2(Abs(p[1] - q[1]), Abs(p[2] - q[2])) > 1
                        => spreadImg[p] = Transparent

\* One opaque pixel in the middle of the image was spread with the px=1
\* circle: its four neighbours and the pixel itself are opaque, the corner
\* of the image still transparent.
C15_Witness ==
    /\ pc = "spread"
    /\ Lit(image) = { << 2, 2 >> } /\ image[<< 2, 2 >>][4] = Opaque
    /\ mask = CircleMask(1, "tight")
    /\ Lit(spreadImg) = { << 2, 2 >>, << 1, 2 >>, << 3, 2 >>, << 2, 1 >>,
                          << 2, 3 >> }
    /\ spreadImg[<< 1, 2 >>] = image[<< 2, 2 >>]
    /\ spreadImg[<< 0, 0 >>] = Transparent

----------------------------------------------------------------------------
\* tf.colorize(aggc, color_key): a category aggregate as an image

\* color_key = dict(d1='blue', d2='green', ...)
Blue == << 0, 0, 255 >>
Green == << 0, 128, 0 >>
color_key == [k \in Cats |-> IF k = "d1" THEN Blue ELSE Green]

\* aggc.sum(dim='cat')
Collapse(aggc) == [cell \in DOMAIN aggc |-> SumCats(aggc[cell], Cats)]

\* The colors of the categories present in the bin, each weighing the same.
Mix_plain(counts, key, ch) ==
    LET present == { k \in Cats : counts[k] # 0 }
    IN  SumCats([k \in Cats |-> IF k \in present THEN key[k][ch] ELSE 0],
                Cats) \div Cardinality(present)

\* Channel ch of the colors of the categories, mixed according to the
\* counts of each category.
Mix(counts, key, ch) ==
    SumCats([k \in Cats |-> counts[k] * key[k][ch]], Cats)
        \div SumCats(counts, Cats)

\* The how method applied to the summed counts gives the alpha channel;
\* flat is the end of the alpha range taken when the span is one value.
Alpha(h, tot, sp, flat, cell) ==
    LET t == Transform(h, "count", tot, tot[cell])
        s == IF sp = NoSpan THEN ObservedSpan(h, "count", tot) ELSE sp
    IN  IF s[1] = s[2] THEN (IF flat = 1 THEN 0 ELSE Opaque)
        ELSE Interp(0, Opaque, t, s[1], s[2])

colorize(h, aggc, key, sp, flat) ==
    LET tot == Collapse(aggc)
    IN  [cell \in DOMAIN aggc |->
            IF Masked("count", tot[cell]) THEN Transparent
            ELSE << Mix(aggc[cell], key, 1), Mix(aggc[cell], key, 2),
                    Mix(aggc[cell], key, 3), Alpha(h, tot, sp, flat, cell) >>]

InitColorize ==
    /\ pc = "aggregated"
    /\ canvas \in PointCanvases
    /\ request = canvas
    /\ records \in SeqsUpTo(PointRecords, MaxRecords)
    /\ reduction = "count_cat"
    /\ total = SinglePass(canvas, "count_cat", records, Len(records))
    /\ how \in Hows
    /\ span \in Spans
    /\ degen \in {1, 2}
    /\ cmap = << >>
    /\ image = NoImage /\ shaded = NoAgg
    /\ err = "none"
    /\ probes = << >>
    /\ pending = {} /\ inOrder = TRUE
    /\ chunk = NoAgg /\ chunkLen = 0 /\ nflush = 0 /\ path = << >>
    /\ left = NoAgg /\ right = NoAgg /\ combined = NoAgg
    /\ summary = NoAgg /\ views = << >>
    /\ mask = NoMask /\ spreadImg = NoImage /\ column = ColumnOf(reduction)

\* img = tf.colorize(aggc, color_key, how=how)
Colorize ==
    /\ pc = "aggregated"
    /\ image' = colorize(how, total, color_key, span, degen)
    /\ shaded' = Shade(how, "count", Collapse(total))
    /\ pc' = "rendered"
    /\ UNCHANGED << request, canvas, err, probes, records, reduction, pending,
                    inOrder, chunk, chunkLen, total, nflush, path, left,
                    right, combined, how, span, cmap, degen, summary, views,
                    mask, spreadImg, column >>

NextColorize == Colorize

SpecColorize == InitColorize /\ [][NextColorize]_vars

\* A colormap whose first channel is the alpha range
AlphaRamp == << << 0, 0, 0 >>, << Opaque, Opaque, Opaque >> >>

\* C20: colorize gives every bin the count-weighted average of the colors
\* of its categories, and as alpha what the mask, transform and map steps
\* of render give for the bin's total count; a bin whose counts are all
\* zero is fully transparent and a bin with counts in one category only
\* has exactly the color of that category.
C20_ColorizeWeightedAverage ==
    (pc = "rendered" /\ reduction = "count_cat") =>
        \A cell \in Cells(canvas) :
            LET n1 == total[cell]["d1"]
                n2 == total[cell]["d2"]
            IN  /\ (n1 = 0 /\ n2 = 0) => image[cell][4] = 0
                /\ (n1 + n2 > 0) =>
                      /\ \A ch \in 1 .. 3 :
                            image[cell][ch] =
                                (n1 * Blue[ch] + n2 * Green[ch]) \div (n1 + n2)
                      /\ image[cell][4] =
                            interpolate(how, "count", Collapse(total),
                                        AlphaRamp, span, degen)[cell][1]
                /\ (n1 > 0 /\ n2 = 0) => Rgb(image[cell]) = Blue
                /\ (n1 = 0 /\ n2 > 0) => Rgb(image[cell]) = Green

\* One bin got two d2 records and one d1 record, another bin nothing: the
\* first is two parts green and one part blue, the second transparent.
C20_Witness ==
    /\ pc = "rendered" /\ reduction = "count_cat"
    /\ \E a, b \in Cells(canvas) :
          /\ total[a] = [k \in Cats |-> IF k = "d1" THEN 1 ELSE 2]
          /\ Rgb(image[a]) = << 0, 85, 85 >>
          /\ total[b] = [k \in Cats |-> 0]
          /\ image[b] = Transparent

----------------------------------------------------------------------------
\* tf.dynspread(img, threshold): spreading with a radius chosen from the
\* density of the image

DynMaxPx == 2

DynCanvas == MkCanvas(7, 7, 0, 7, 0, 7)

\* shape='circle' (with either rule for the edge of the circle) or 'square'
DynShapes == {"tight", "half", "square"}
ShapeMask(shape, px) ==
    IF shape = "square" THEN SquareMask(px) ELSE CircleMask(px, shape)

\* The image spread by px pixels; px = 0 leaves it as it is.
SpreadBy(img, shape, px) ==
    IF px = 0 THEN img ELSE spread(img, ShapeMask(shape, px))

\* The pixel has at least one non-transparent neighbour.
HasLitNeighbour(img, p) ==
    \E d \in ((-1 .. 1) \X (-1 .. 1)) \ { << 0, 0 >> } :
        LET q == << p[1] + d[1], p[2] + d[2] >>
        IN  q \in DOMAIN img /\ img[q][4] # 0

\* The number of pixels that have at least one non-transparent neighbour;
\* the fraction is this number over the number of pixels.
Crowded(img) == Cardinality({ p \in DOMAIN img : HasLitNeighbour(img, p) })

\* The fraction of the image spread by px stays below the threshold
\* thr[1] / thr[2].
StaysBelow(img, shape, px, thr) ==
    Crowded(SpreadBy(img, shape, px)) * thr[2]
        < thr[1] * Cardinality(DOMAIN img)

\* The radius is kept at the first one tried, whatever the density.
DynRadius_fixed(img, shape, thr, px) == px

\* The radius grows from px as long as the next radius keeps the fraction
\* below the threshold.
RECURSIVE DynRadius(_, _, _, _)
DynRadius(img, shape, thr, px) ==
    IF px < DynMaxPx /\ StaysBelow(img, shape, px + 1, thr)
    THEN DynRadius(img, shape, thr, px + 1)
    ELSE px

dynspread(img, shape, thr) ==
    LET px == DynRadius(img, shape, thr, 0)
    IN  [px |-> px, out |-> SpreadBy(img, shape, px)]

\* threshold=0.25 and other targets, as numerator and denominator
Thresholds == { << 1, 4 >>, << 1, 2 >>, << 4, 5 >> }

\* Where an image given to dynspread may have a non-transparent pixel
DynSourceCells == { << 3, 3 >>, << 3, 4 >>, << 0, 0 >> }
DynImages ==
    { [p \in Cells(DynCanvas) |->
          IF p \in S THEN << 0, 0, 255, 255 >> ELSE Transparent] :
        S \in SUBSET DynSourceCells }

InitDyn ==
    /\ pc = "idle"
    /\ canvas = DynCanvas
    /\ request = DynCanvas
    /\ views = << >>
    /\ image = NoImage
    /\ mask = NoMask
    /\ spreadImg = NoImage
    /\ column = NoColumn
    /\ reduction = "count"
    /\ err = "none"
    /\ probes = << >>
    /\ records = << >> /\ pending = {} /\ inOrder = TRUE
    /\ total = NoAgg /\ chunk = NoAgg /\ chunkLen = 0 /\ nflush = 0
    /\ path = << >> /\ left = NoAgg /\ right = NoAgg /\ combined = NoAgg
    /\ how = "linear" /\ span = NoSpan /\ cmap = << >>
    /\ shaded = NoAgg /\ degen = 1 /\ summary = NoAgg

\* tf.dynspread(img, threshold=thr, shape=shape) on one image; views keeps
\* what each call was given and the radius it took.
DynSpread(img, shape, thr) ==
    /\ Len(views) < 2
    /\ image' = img
    /\ LET res == dynspread(img, shape, thr)
       IN  /\ mask' = IF res.px = 0 THEN NoMask ELSE ShapeMask(shape, res.px)
           /\ spreadImg' = res.out
           /\ views' = Append(views, [img |-> img, shape |-> shape,
                                      thr |-> thr, px |-> res.px])
    /\ pc' = "spread"
    /\ UNCHANGED << request, canvas, err, probes, records, reduction, pending,
                    inOrder, chunk, chunkLen, total, nflush, path, left,
                    right, combined, how, span, cmap, shaded, degen, summary, column >>

NextDyn ==
    \E img \in DynImages, shape \in DynShapes, thr \in Thresholds :
        DynSpread(img, shape, thr)

SpecDyn == InitDyn /\ [][NextDyn]_vars

\* The radii at which the spread image of a call stays below its threshold
Qualifying(v) ==
    { r \in 0 .. DynMaxPx : StaysBelow(v.img, v.shape, r, v.thr) }

\* The radii up to which every spreading stays below the threshold of the
\* call; radius 0 is no spreading.
Reachable(v) ==
    { r \in 0 .. DynMaxPx :
        \A k \in 1 .. r : StaysBelow(v.img, v.shape, k, v.thr) }

\* Of two calls with the same threshold and shape, the one given the
\* sparser image (the lower fraction) took a radius at least as large.
SparseSpreadsMore ==
    \A i, j \in 1 .. Len(views) :
        (views[i].thr = views[j].thr /\ views[i].shape = views[j].shape
            /\ Crowded(views[i].img) <= Crowded(views[j].img))
        => views[i].px >= views[j].px

----------------------------------------------------------------------------
\* canvas.points(df, 'x', 'y', reduction(column)): the aggregate call from
\* its start to the Aggregate it returns

\* The types of the columns of the dataframe
ColumnType(col) == IF col = "cat" THEN "categorical" ELSE "numeric"

\* Every reduction takes every column.
Supports_any(red, col) == TRUE

\* The reduction can process the type of the column.
Supports(red, col) ==
    CASE red \in {"count", "any"} -> TRUE
      [] red \in {"sum", "mean"} ->
            col # NoColumn /\ ColumnType(col) = "numeric"
      [] red = "count_cat" ->
            col # NoColumn /\ ColumnType(col) = "categorical"

\* The reductions and columns an aggregate call may be given
AggCalls ==
    { << "count", NoColumn >>, << "any", NoColumn >> }
        \cup ({"sum", "mean", "count_cat"} \X {"val", "cat"})

InitCall ==
    /\ pc = "ready"
    /\ canvas \in PointCanvases
    /\ request = canvas
    /\ records \in SeqsUpTo(PointRecords, MaxRecords)
    /\ reduction = "count"
    /\ column = NoColumn
    /\ total = NoAgg
    /\ chunkLen = 0
    /\ pending = {}
    /\ err = "none"
    /\ probes = << >>
    /\ inOrder = TRUE
    /\ chunk = NoAgg /\ nflush = 0 /\ path = << >>
    /\ left = NoAgg /\ right = NoAgg /\ combined = NoAgg
    /\ how = "linear" /\ span = NoSpan /\ cmap = << >> /\ image = NoImage
    /\ shaded = NoAgg /\ degen = 1 /\ summary = NoAgg /\ views = << >>
    /\ mask = NoMask /\ spreadImg = NoImage

\* Aggregation start: the reduction is checked against its column, then
\* the Aggregate is allocated with every bin at its initial state.
BeginAggregate(red, col) ==
    /\ pc \in {"ready", "failed"}
    /\ reduction' = red
    /\ column' = col
    /\ chunkLen' = 0
    /\ IF Supports(red, col)
         THEN /\ err' = "none"
              /\ total' = EmptyAgg(canvas, red)
              /\ pending' = 1 .. Len(records)
              /\ pc' = "streaming"
         ELSE /\ err' = "UnsupportedReductionError"
              /\ total' = NoAgg
              /\ pending' = {}
              /\ pc' = "failed"
    /\ UNCHANGED << request, canvas, probes, records, inOrder, chunk, nflush,
                    path, left, right, combined, how, span, cmap, image,
                    shaded, degen, summary, views, mask, spreadImg >>

\* The next record of the dataframe updates its bin.
StreamRecord ==
    /\ pc = "streaming"
    /\ chunkLen < Len(records)
    /\ total' = AddPoint(canvas, reduction, total, records[chunkLen + 1])
    /\ chunkLen' = chunkLen + 1
    /\ pending' = pending \ {chunkLen + 1}
    /\ UNCHANGED << pc, request, canvas, err, probes, records, reduction,
                    inOrder, chunk, nflush, path, left, right, combined, how,
                    span, cmap, image, shaded, degen, summary, views, mask,
                    spreadImg, column >>

\* Every record was streamed: the Aggregate is returned to the caller.
ReturnAggregate ==
    /\ pc = "streaming"
    /\ chunkLen = Len(records)
    /\ pc' = "done"
    /\ UNCHANGED << request, canvas, err, probes, records, reduction, pending,
                    inOrder, chunk, chunkLen, total, nflush, path, left,
                    right, combined, how, span, cmap, image, shaded, degen,
                    summary, views, mask, spreadImg, column >>

NextCall ==
    \/ \E call \in AggCalls : BeginAggregate(call[1], call[2])
    \/ StreamRecord
    \/ ReturnAggregate

SpecCall == InitCall /\ [][NextCall]_vars

\* The reduction was asked for a column of a type it does not take.
WrongColumnType ==
    \/ reduction \in {"sum", "mean"} /\ column # "val"
    \/ reduction = "count_cat" /\ column # "cat"

\* C22: an aggregate call whose reduction cannot process the type of its
\* column fails with UnsupportedReductionError at aggregation start: no
\* record was streamed, no Aggregate exists, and every Aggregate that is
\* being filled or was returned belongs to a reduction that takes its
\* column; a returned Aggregate holds every record.
C22_UnsupportedFailsAtStart ==
    /\ pc \in {"failed", "streaming", "done"} =>
          (err = "UnsupportedReductionError" <=> WrongColumnType)
    /\ err = "UnsupportedReductionError" =>
          /\ pc = "failed"
          /\ total = NoAgg
          /\ chunkLen = 0 /\ pending = {}
    /\ total # NoAgg =>
          /\ ~ WrongColumnType
          /\ pc \in {"streaming", "done"}
          /\ total = SinglePass(canvas, reduction, records, chunkLen)
    /\ pc = "done" => (total # NoAgg /\ chunkLen = Len(records))

\* count_cat was asked for the numeric column of a dataframe of three
\* records: the call failed, nothing was streamed and no Aggregate exists.
C22_Witness ==
    /\ err = "UnsupportedReductionError" /\ pc = "failed"
    /\ reduction = "count_cat" /\ column = "val"
    /\ Len(records) = 3
    /\ total = NoAgg /\ chunkLen = 0

====
